---- MODULE Spec2Model ----
(***************************************************************************)
(* Task orchestration of Happiness Agent (src/core/minimal-orchestrator.js,*)
(* which holds both OrchestratorClient and MinimalOrchestratorClient).     *)
(*                                                                         *)
(* JavaScript runs one callback at a time: a handler is atomic from its    *)
(* entry (or from the resumption of an await) to its next await or its     *)
(* end.  Each action below is one such stretch of code.  The only awaits   *)
(* inside a run are the agent call of executeWorkflow (executeStep) and    *)
(* the generator call of executeCodeGeneration (callCodeGenerator).        *)
(* A process constructs exactly one of the two clients (the two CLIs).     *)
(***************************************************************************)
EXTENDS Integers, Sequences, FiniteSets, TLC

VARIABLES
  client,   \* which class this process constructed
  tasks,    \* OrchestratorClient.tasks: the Map, in insertion order; the id is the index
  runs,     \* one activation of executeWorkflow per task: its locals and its position
  hist,     \* per task: what the run has done so far (history, not program state)
  last,     \* the call or callback that ran last, with its arguments and its outcome
  mtasks,   \* MinimalOrchestratorClient.tasks, in insertion order
  mruns,    \* one activation of executeCodeGeneration per task created by generateCode
  disk      \* the content of tasks.json

vars == <<client, tasks, runs, hist, last, mtasks, mruns, disk>>

----------------------------------------------------------------------------
(* Bounds *)

MaxTasks == 1      \* calls of startWorkflow / generateCode that create a task

----------------------------------------------------------------------------
(* Values *)

Undefined == "undefined"      \* JavaScript undefined / an absent property
Timestamp == "timestamp"      \* new Date().toISOString()
NoMessage == <<>>             \* no error text; texts are sequences of fragments
Null      == [null |-> TRUE]  \* null (a step's result before it completes)
EmptyObject == <<>>           \* {}
UndefinedObject == [undefined |-> TRUE]   \* undefined, where the values are objects

TypeErrorMessage == <<"TypeError">>

\* { ...a, ...b }
Spread(a, b) ==
  [k \in (DOMAIN a) \cup (DOMAIN b) |-> IF k \in DOMAIN b THEN b[k] ELSE a[k]]

\* obj.key of an object
Get(obj, key) == IF key \in DOMAIN obj THEN obj[key] ELSE Undefined

Threw(msg)  == [threw |-> TRUE,  msg |-> msg, value |-> EmptyObject]
Value(v)    == [threw |-> FALSE, msg |-> NoMessage, value |-> v]

----------------------------------------------------------------------------
(* OrchestratorClient.loadWorkflows: the step definitions of full_cycle.    *)
(* inputs lists, per input key, where the value is read from: params or a  *)
(* previous step's mapped result.  output is the key outputMapping copies. *)

FromParams(key, field)     == [key |-> key, from |-> "params", field |-> field]
FromStep(key, step, field) == [key |-> key, from |-> step, field |-> field]

workflows ==
  [full_cycle |-> [steps |-> <<
     [name |-> "analyze_requirements", agent |-> "consultant", action |-> "analyze_prompt",
      inputs |-> {FromParams("user_prompt", "user_prompt")},
      output |-> "scope_definition", condition |-> FALSE],
     [name |-> "decompose_tasks", agent |-> "pm", action |-> "create_task_plan",
      inputs |-> {FromStep("scope_definition", "analyze_requirements", "scope_definition")},
      output |-> "task_plan", condition |-> FALSE],
     [name |-> "generate_code", agent |-> "code_generator", action |-> "generate_module",
      inputs |-> {FromStep("task_plan", "decompose_tasks", "task_plan")},
      output |-> "generated_code", condition |-> FALSE],
     [name |-> "run_tests", agent |-> "test_runner", action |-> "test_module",
      inputs |-> {FromStep("code_path", "generate_code", "generated_code")},
      output |-> "test_results", condition |-> FALSE],
     [name |-> "lint_code", agent |-> "linter", action |-> "lint_code",
      inputs |-> {FromStep("code_path", "generate_code", "generated_code")},
      output |-> "lint_results", condition |-> FALSE],
     [name |-> "analyze_errors", agent |-> "error_analyzer", action |-> "analyze_issues",
      inputs |-> {FromStep("test_results", "run_tests", "test_results"),
                  FromStep("lint_results", "lint_code", "lint_results")},
      output |-> "error_analysis", condition |-> TRUE],
     [name |-> "refine_code", agent |-> "code_generator", action |-> "refine_code",
      inputs |-> {FromStep("code_path", "generate_code", "generated_code"),
                  FromStep("error_analysis", "analyze_errors", "error_analysis")},
      output |-> "refined_code", condition |-> TRUE]
  >>]]

\* the names a caller may pass to startWorkflow: the registered one and one that is not
WorkflowNames == {"full_cycle", "deploy"}

\* the params a caller passes to startWorkflow
Params == {[user_prompt |-> "hi"]}

\* variant: a name that is not registered falls back to full_cycle
lookupWorkflowDefault(workflowName) ==
  [found |-> TRUE,
   steps |-> IF workflowName \in DOMAIN workflows THEN workflows[workflowName].steps
             ELSE workflows["full_cycle"].steps]

\* this.workflows[workflowName]
lookupWorkflow(workflowName) ==
  IF workflowName \in DOMAIN workflows
  THEN [found |-> TRUE, steps |-> workflows[workflowName].steps]
  ELSE [found |-> FALSE, steps |-> <<>>]

----------------------------------------------------------------------------
(* The values agents return.  test_results and lint_results are objects    *)
(* whose failures / issues.length the conditions read.                     *)

failures(testResults) ==
  CASE testResults = "tests: 1 failure" -> 1
    [] testResults = "tests: 0 failures" -> 0

issuesLength(lintResults) ==
  CASE lintResults = "lint: 2 issues" -> 2
    [] lintResults = "lint: 0 issues" -> 0

\* variant: the condition of refine_code reads analyze_errors.error_analysis
\* without looking whether analyze_errors is there
conditionUnguarded(name, prevResults) ==
  CASE name = "analyze_errors" ->
         LET testResults == Get(prevResults["run_tests"], "test_results")
             lintResults == Get(prevResults["lint_code"], "lint_results")
         IN IF testResults = Undefined THEN Threw(TypeErrorMessage)
            ELSE IF failures(testResults) > 0 THEN Value(TRUE)
            ELSE IF lintResults = Undefined THEN Threw(TypeErrorMessage)
            ELSE Value(issuesLength(lintResults) > 0)
    [] name = "refine_code" ->
         IF "analyze_errors" \notin DOMAIN prevResults THEN Threw(TypeErrorMessage)
         ELSE Value(Get(prevResults["analyze_errors"], "error_analysis") # Undefined)

\* step.condition(stepResults) of analyze_errors and refine_code
condition(name, prevResults) ==
  CASE name = "analyze_errors" ->
         IF "run_tests" \notin DOMAIN prevResults \/ "lint_code" \notin DOMAIN prevResults
         THEN Threw(TypeErrorMessage)
         ELSE LET testResults == Get(prevResults["run_tests"], "test_results")
                  lintResults == Get(prevResults["lint_code"], "lint_results")
              IN IF testResults = Undefined THEN Threw(TypeErrorMessage)
                 ELSE IF failures(testResults) > 0 THEN Value(TRUE)
                 ELSE IF lintResults = Undefined THEN Threw(TypeErrorMessage)
                 ELSE Value(issuesLength(lintResults) > 0)
    [] name = "refine_code" ->
         Value("analyze_errors" \in DOMAIN prevResults
               /\ Get(prevResults["analyze_errors"], "error_analysis") # Undefined)

\* step.inputs(params, stepResults)
inputs(step, params, prevResults) ==
  IF \E r \in step.inputs : r.from # "params" /\ r.from \notin DOMAIN prevResults
  THEN Threw(TypeErrorMessage)
  ELSE Value([k \in {r.key : r \in step.inputs} |->
                LET r == CHOOSE r \in step.inputs : r.key = k
                IN IF r.from = "params" THEN Get(params, r.field)
                   ELSE Get(prevResults[r.from], r.field)])

\* step.outputMapping(result): copies one property of the agent's result;
\* reading a property of null throws
outputMapping(step, result) ==
  IF result = Null THEN Threw(TypeErrorMessage)
  ELSE Value([k \in {step.output} |-> Get(result, step.output)])

\* the agent:action pairs executeStep has a case for
KnownActions ==
  {<<"consultant", "analyze_prompt">>, <<"pm", "create_task_plan">>,
   <<"code_generator", "generate_module">>, <<"test_runner", "test_module">>,
   <<"linter", "lint_code">>, <<"error_analyzer", "analyze_issues">>,
   <<"code_generator", "refine_code">>}

AgentErrorMessage == <<"agent request failed">>
UnknownActionMessage(agentName, action) == <<"Unknown agent action: ", agentName, ":", action>>

\* the results an agent can send for an action: the stand-in's result first,
\* then the other results of the agent's API
AgentResults(agentName, action) ==
  CASE <<agentName, action>> = <<"consultant", "analyze_prompt">> ->
         {[scope_definition |-> "scope", request_id |-> "r1"]}
    [] <<agentName, action>> = <<"pm", "create_task_plan">> ->
         {[task_plan |-> "plan"]}
    [] <<agentName, action>> = <<"code_generator", "generate_module">> ->
         {[generated_code |-> "generated/sample_module"], Null}
    [] <<agentName, action>> = <<"test_runner", "test_module">> ->
         {[test_results |-> "tests: 1 failure"], [test_results |-> "tests: 0 failures"],
          EmptyObject}
    [] <<agentName, action>> = <<"linter", "lint_code">> ->
         {[lint_results |-> "lint: 2 issues"], [lint_results |-> "lint: 0 issues"]}
    [] <<agentName, action>> = <<"error_analyzer", "analyze_issues">> ->
         {[error_analysis |-> "analysis"], EmptyObject}
    [] <<agentName, action>> = <<"code_generator", "refine_code">> ->
         {[refined_code |-> "refined/sample_module"]}

\* variant: an agent that never answers
executeStepHangs(agentName, action, in) == {}

\* what the awaited executeStep(agentName, action, inputs) settles with
executeStep(agentName, action, in) ==
  IF <<agentName, action>> \notin KnownActions
  THEN {Threw(UnknownActionMessage(agentName, action))}
  ELSE {Value(r) : r \in AgentResults(agentName, action)} \cup {Threw(AgentErrorMessage)}

----------------------------------------------------------------------------
(* OrchestratorClient: task records and the pieces of executeWorkflow.      *)
(* A cell is one task with the activation of executeWorkflow that works on *)
(* it and the history of that activation:                                  *)
(*   task  the object stored in this.tasks                                 *)
(*   run   pc: "await" (suspended in await executeStep), "next" (go on     *)
(*         with the next iteration), "returned", "rejected";               *)
(*         i: the loop index (from 1); workflow, params: the arguments;    *)
(*         stepResults: the local map; request: the call in flight         *)
(*   hist  created: the task as startWorkflow stored it; invoked: steps    *)
(*         executeStep was called for; wasRunning: steps that were set     *)
(*         RUNNING; condFalse: steps whose condition returned false;       *)
(*         raised: steps whose try block raised; cancelled: a cancelTask   *)
(*         succeeded; passed: per step whose condition returned false or   *)
(*         whose inputs were computed, the stepResults and params the      *)
(*         step's functions were called with                               *)

\* variant: the last step definition gets no step record
NewTaskShort(taskId, workflowName, workflow, params) ==
  [id |-> taskId,
   type |-> workflowName,
   status |-> "PENDING",
   params |-> params,
   steps |-> [i \in 1..(Len(workflow.steps) - 1) |->
                [name |-> workflow.steps[i].name, status |-> "PENDING",
                 result |-> Null, error |-> NoMessage]],
   results |-> EmptyObject,
   started_at |-> Timestamp,
   completed_at |-> Undefined,
   error |-> NoMessage]

\* the object startWorkflow stores in the Map
NewTask(taskId, workflowName, workflow, params) ==
  [id |-> taskId,
   type |-> workflowName,
   status |-> "PENDING",
   params |-> params,
   steps |-> [i \in 1..Len(workflow.steps) |->
                [name |-> workflow.steps[i].name, status |-> "PENDING",
                 result |-> Null, error |-> NoMessage]],
   results |-> EmptyObject,
   started_at |-> Timestamp,
   completed_at |-> Undefined,
   error |-> NoMessage]

NewRun(workflow, params) ==
  [pc |-> "next", i |-> 0, workflow |-> workflow, params |-> params,
   stepResults |-> EmptyObject, request |-> EmptyObject]

NewHist(task) ==
  [created |-> task, invoked |-> {}, wasRunning |-> {}, condFalse |-> {},
   raised |-> {}, cancelled |-> FALSE, passed |-> {}]

\* variant: the task is left PENDING when the run starts
EnterWorkflowDeferred(c) ==
  [c EXCEPT !.run.stepResults = EmptyObject]

\* executeWorkflow, before the loop: task.status = 'RUNNING'; stepResults = {}
EnterWorkflow(c) ==
  [c EXCEPT !.task.status = "RUNNING", !.run.stepResults = EmptyObject]

\* what the functions of step i are called with
Passed(c, i) == [step |-> i, stepResults |-> c.run.stepResults, params |-> c.run.params]

\* variant: a skipped step leaves an empty entry in stepResults
SkipStepWithEntry(c, i) ==
  [c EXCEPT !.task.steps[i].status = "SKIPPED",
            !.run.stepResults =
               Spread(@, [k \in {c.run.workflow.steps[i].name} |-> EmptyObject]),
            !.run.pc = "next",
            !.hist.condFalse = @ \cup {i},
            !.hist.passed = @ \cup {Passed(c, i)}]

\* the condition returned false: taskStep.status = 'SKIPPED'; continue
SkipStep(c, i) ==
  [c EXCEPT !.task.steps[i].status = "SKIPPED",
            !.run.pc = "next",
            !.hist.condFalse = @ \cup {i},
            !.hist.passed = @ \cup {Passed(c, i)}]

\* variant: the next step is started along with this one
MarkRunningAhead(c, i) ==
  [c EXCEPT !.task.steps =
              [j \in DOMAIN @ |-> IF j \in {i, i + 1} THEN [@[j] EXCEPT !.status = "RUNNING"]
                                  ELSE @[j]],
            !.hist.wasRunning = @ \cup {i}]

\* variant: the step is not marked while its agent works
MarkRunningLate(c, i) ==
  [c EXCEPT !.hist.wasRunning = @ \cup {i}]

\* taskStep.status = 'RUNNING'
MarkRunning(c, i) ==
  [c EXCEPT !.task.steps[i].status = "RUNNING",
            !.hist.wasRunning = @ \cup {i}]

\* variant: the call blocks until the agent has answered; the step is done
\* when the call returns
InvokeStepAndWait(c, i, in) ==
  LET step == c.run.workflow.steps[i]
  IN [c EXCEPT !.run.pc = "next",
               !.run.i = i,
               !.run.stepResults = Spread(@, [k \in {step.name} |-> EmptyObject]),
               !.task.steps[i].result = EmptyObject,
               !.task.steps[i].status = "COMPLETED",
               !.hist.invoked = @ \cup {i}]

\* the call this.executeStep(step.agent, step.action, inputs), up to its await
InvokeStep(c, i, in) ==
  LET step == c.run.workflow.steps[i]
  IN [c EXCEPT !.run.pc = "await",
               !.run.i = i,
               !.run.request = [agent |-> step.agent, action |-> step.action, inputs |-> in],
               !.hist.invoked = @ \cup {i},
               !.hist.passed = @ \cup {Passed(c, i)}]

\* variant: the mapped result is not merged into task.results
CompleteStepNoMerge(c, i, mappedResult) ==
  LET step == c.run.workflow.steps[i]
  IN [c EXCEPT !.run.stepResults = Spread(@, [k \in {step.name} |-> mappedResult]),
               !.run.pc = "next",
               !.task.steps[i].result = mappedResult,
               !.task.steps[i].status = "COMPLETED"]

\* variant: the mapped keys are spread into stepResults as they are into
\* task.results, not stored under the step's name
CompleteStepFlat(c, i, mappedResult) ==
  [c EXCEPT !.run.stepResults = Spread(@, mappedResult),
            !.run.pc = "next",
            !.task.steps[i].result = mappedResult,
            !.task.steps[i].status = "COMPLETED",
            !.task.results = Spread(@, mappedResult)]

\* the try block after the await: store the mapped result
CompleteStep(c, i, mappedResult) ==
  LET step == c.run.workflow.steps[i]
  IN [c EXCEPT !.run.stepResults = Spread(@, [k \in {step.name} |-> mappedResult]),
               !.run.pc = "next",
               !.task.steps[i].result = mappedResult,
               !.task.steps[i].status = "COMPLETED",
               !.task.results = Spread(@, mappedResult)]

\* variant: the catch block without its return
CatchStepNoReturn(c, i, message) ==
  LET step == c.run.workflow.steps[i]
  IN [c EXCEPT !.task.steps[i].status = "FAILED",
               !.task.steps[i].error = message,
               !.task.status = "FAILED",
               !.task.error = <<"Failed to execute step ", step.name, ": ">> \o message,
               !.run.pc = "next",
               !.hist.raised = @ \cup {i}]

\* variant: the catch block discards what the earlier steps merged
CatchStepRollback(c, i, message) ==
  LET step == c.run.workflow.steps[i]
  IN [c EXCEPT !.task.steps[i].status = "FAILED",
               !.task.steps[i].error = message,
               !.task.status = "FAILED",
               !.task.error = <<"Failed to execute step ", step.name, ": ">> \o message,
               !.task.results = EmptyObject,
               !.run.pc = "returned",
               !.hist.raised = @ \cup {i}]

\* variant: the catch block stores the error as the step's result
CatchStepKeepsResult(c, i, message) ==
  LET step == c.run.workflow.steps[i]
  IN [c EXCEPT !.task.steps[i].status = "FAILED",
               !.task.steps[i].error = message,
               !.task.steps[i].result = [error |-> message],
               !.task.status = "FAILED",
               !.task.error = <<"Failed to execute step ", step.name, ": ">> \o message,
               !.run.pc = "returned",
               !.hist.raised = @ \cup {i}]

\* variant: the task's error is the error as thrown, without the step's name
CatchStepAnonymous(c, i, message) ==
  LET step == c.run.workflow.steps[i]
  IN [c EXCEPT !.task.steps[i].status = "FAILED",
               !.task.steps[i].error = message,
               !.task.status = "FAILED",
               !.task.error = message,
               !.run.pc = "returned",
               !.hist.raised = @ \cup {i}]

\* the catch block of the loop, with its return
CatchStep(c, i, message) ==
  LET step == c.run.workflow.steps[i]
  IN [c EXCEPT !.task.steps[i].status = "FAILED",
               !.task.steps[i].error = message,
               !.task.status = "FAILED",
               !.task.error = <<"Failed to execute step ", step.name, ": ">> \o message,
               !.run.pc = "returned",
               !.hist.raised = @ \cup {i}]

\* variant: the end of the run leaves a cancelled task cancelled
FinishKeepsCancelled(c) ==
  IF c.task.status = "CANCELLED" THEN [c EXCEPT !.run.pc = "returned"]
  ELSE [c EXCEPT !.task.status = "COMPLETED",
                 !.task.completed_at = Timestamp,
                 !.run.pc = "returned"]

\* after the loop: task.status = 'COMPLETED'
FinishWorkflow(c) ==
  [c EXCEPT !.task.status = "COMPLETED",
            !.task.completed_at = Timestamp,
            !.run.pc = "returned"]

\* executeWorkflow rejects and the handler startWorkflow attached with .catch
\* runs: the rejection queues the handler as the next job, so no other
\* callback of the program runs between the two
RejectWorkflow(c, message) ==
  [c EXCEPT !.task.status = "FAILED",
            !.task.error = message,
            !.run.pc = "rejected"]

\* one iteration of the loop, from its top to the await, or to its end when
\* the step is skipped or fails before the call
StepPrefix(c, i) ==
  LET step == c.run.workflow.steps[i]
      cond == IF step.condition THEN condition(step.name, c.run.stepResults)
              ELSE Value(TRUE)
  IN IF cond.threw THEN RejectWorkflow(c, cond.msg)
     ELSE IF ~cond.value THEN SkipStep(c, i)
     ELSE LET r  == MarkRunning(c, i)
              in == inputs(step, c.run.params, c.run.stepResults)
          IN IF in.threw THEN CatchStep(r, i, in.msg)
             ELSE InvokeStep(r, i, in.value)

\* the for loop from iteration i on, to the next await or to the end
RECURSIVE RunLoop(_, _)
RunLoop(c, i) ==
  IF i > Len(c.run.workflow.steps) THEN FinishWorkflow(c)
  ELSE LET d == StepPrefix(c, i)
       IN IF d.run.pc = "next" THEN RunLoop(d, i + 1) ELSE d

\* the rest of the try block once the awaited executeStep has settled
StepSuffix(c, i, settled) ==
  LET step == c.run.workflow.steps[i]
  IN IF settled.threw THEN CatchStep(c, i, settled.msg)
     ELSE LET mapped == outputMapping(step, settled.value)
          IN IF mapped.threw THEN CatchStep(c, i, mapped.msg)
             ELSE CompleteStep(c, i, mapped.value)

Cell(t) == [task |-> tasks[t], run |-> runs[t], hist |-> hist[t]]

\* an id that is not in the Map is any id above the ids given out so far
TaskIds == 1..(MaxTasks + 1)

has(taskId) == taskId \in 1..Len(tasks)

\* a call and how it ended: error is the text of the error thrown, NoMessage
\* when the call returned; value is the operation with what it returned
Call(op, taskId, name, error, value) ==
  [op |-> op, id |-> taskId, name |-> name, error |-> error,
   value |-> IF error = NoMessage THEN <<op, value>> ELSE <<op>>]

ReturnedValue(call) == call.value[2]

\* variant: an id that is not in the Map is answered with undefined, no error
NotFoundSilent(taskId) == NoMessage

NotFoundMessage(taskId) == <<"Task ", ToString(taskId), " not found">>

----------------------------------------------------------------------------
(* OrchestratorClient: operations *)

\* startWorkflow with everything it runs before it returns: the new task and
\* executeWorkflow up to its first await; callers make at most `limit` calls
\* that create a task
startWorkflowWithin(limit, workflowName, params) ==
  /\ client = "OrchestratorClient"
  /\ LET workflow == lookupWorkflow(workflowName)
     IN IF ~workflow.found
        THEN /\ last' = Call("startWorkflow", 0, workflowName,
                             <<"Workflow ", workflowName, " not found">>, Undefined)
             /\ UNCHANGED <<tasks, runs, hist>>
        ELSE /\ Len(tasks) < limit
             /\ LET taskId == Len(tasks) + 1
                    task   == NewTask(taskId, workflowName, workflow, params)
                IN \E c \in {RunLoop(EnterWorkflow([task |-> task,
                                                     run  |-> NewRun(workflow, params),
                                                     hist |-> NewHist(task)]), 1)} :
                   /\ tasks' = Append(tasks, c.task)
                   /\ runs'  = Append(runs, c.run)
                   /\ hist'  = Append(hist, c.hist)
                   /\ last'  = Call("startWorkflow", taskId, workflowName, NoMessage, taskId)
  /\ UNCHANGED <<client, mtasks, mruns, disk>>

startWorkflow(workflowName, params) ==
  startWorkflowWithin(MaxTasks, workflowName, params)

\* variant: the tasks share one results object, so what the run of task t
\* merges shows in every task
resumeWorkflowSharedResults(t) ==
  /\ client = "OrchestratorClient"
  /\ has(t)
  /\ runs[t].pc = "await"
  /\ \E settled \in executeStep(runs[t].request.agent, runs[t].request.action,
                                runs[t].request.inputs) :
       \E d \in {StepSuffix(Cell(t), runs[t].i, settled)} :
       \E c \in {IF d.run.pc = "next" THEN RunLoop(d, runs[t].i + 1) ELSE d} :
          /\ tasks' = [u \in DOMAIN tasks |->
                         IF u = t THEN c.task
                         ELSE [tasks[u] EXCEPT !.results = c.task.results]]
          /\ runs'  = [runs EXCEPT ![t] = c.run]
          /\ hist'  = [hist EXCEPT ![t] = c.hist]
          /\ last'  = Call("executeWorkflow", t, Undefined, NoMessage, c.run.pc)
  /\ UNCHANGED <<client, mtasks, mruns, disk>>

\* the awaited executeStep of task t settles and executeWorkflow goes on to
\* its next await or to its end
resumeWorkflow(t) ==
  /\ client = "OrchestratorClient"
  /\ has(t)
  /\ runs[t].pc = "await"
  /\ \E settled \in executeStep(runs[t].request.agent, runs[t].request.action,
                                runs[t].request.inputs) :
       \E d \in {StepSuffix(Cell(t), runs[t].i, settled)} :
       \E c \in {IF d.run.pc = "next" THEN RunLoop(d, runs[t].i + 1) ELSE d} :
          /\ tasks' = [tasks EXCEPT ![t] = c.task]
          /\ runs'  = [runs EXCEPT ![t] = c.run]
          /\ hist'  = [hist EXCEPT ![t] = c.hist]
          /\ last'  = Call("executeWorkflow", t, Undefined, NoMessage, c.run.pc)
  /\ UNCHANGED <<client, mtasks, mruns, disk>>

Count(steps, statuses) == Cardinality({i \in 1..Len(steps) : steps[i].status \in statuses})

\* variant: only COMPLETED steps count
progressCompletedOnly(task) ==
  (Count(task.steps, {"COMPLETED"}) * 100) \div Len(task.steps)

\* variant: Math.round in place of Math.floor
progressRounded(task) ==
  (Count(task.steps, {"COMPLETED", "SKIPPED"}) * 200 + Len(task.steps))
    \div (2 * Len(task.steps))

\* Math.floor((completedSteps / totalSteps) * 100); with the 7 steps of
\* full_cycle the double arithmetic gives the floor of the exact quotient
progress(task) ==
  (Count(task.steps, {"COMPLETED", "SKIPPED"}) * 100) \div Len(task.steps)

getStatusMessage(task) ==
  CASE task.status = "PENDING"   -> <<"Task is queued and waiting to start">>
    [] task.status = "RUNNING"   ->
         IF \E i \in 1..Len(task.steps) : task.steps[i].status = "RUNNING"
         THEN LET i == CHOOSE i \in 1..Len(task.steps) :
                         /\ task.steps[i].status = "RUNNING"
                         /\ \A j \in 1..(i - 1) : task.steps[j].status # "RUNNING"
              IN <<"Executing step: ", task.steps[i].name>>
         ELSE <<"Task is running">>
    [] task.status = "COMPLETED" -> <<"Task completed successfully">>
    [] task.status = "FAILED"    -> IF task.error # NoMessage THEN task.error
                                    ELSE <<"Task failed">>
    [] task.status = "CANCELLED" -> <<"Task was cancelled">>
    [] OTHER                     -> <<"Unknown status">>

getTaskStatus(taskId) ==
  /\ client = "OrchestratorClient"
  /\ IF ~has(taskId)
     THEN last' = Call("getTaskStatus", taskId, Undefined, NotFoundMessage(taskId), Undefined)
     ELSE LET task == tasks[taskId]
          IN last' = Call("getTaskStatus", taskId, Undefined, NoMessage,
                          [id |-> task.id, status |-> task.status,
                           progress |-> progress(task), error |-> task.error,
                           started_at |-> task.started_at,
                           completed_at |-> task.completed_at,
                           message |-> getStatusMessage(task)])
  /\ UNCHANGED <<client, tasks, runs, hist, mtasks, mruns, disk>>

\* JSON.stringify of an object: properties whose value is undefined are left out
stringify(obj) == [k \in {k \in DOMAIN obj : obj[k] # Undefined} |-> obj[k]]

\* variant: a FAILED task hands out its partial results
NotCompletedNorFailed(task) == task.status \notin {"COMPLETED", "FAILED"}

\* task.status !== 'COMPLETED'
NotCompleted(task) == task.status # "COMPLETED"

NotCompletedMessage(taskId, status) ==
  <<"Task ", ToString(taskId), " is not completed (status: ", status, ")">>

\* variant: the results are handed out once; the call empties task.results
getTaskArtifactsOnce(taskId) ==
  /\ client = "OrchestratorClient"
  /\ IF ~has(taskId)
     THEN /\ last' = Call("getTaskArtifacts", taskId, Undefined, NotFoundMessage(taskId),
                          Undefined)
          /\ UNCHANGED tasks
     ELSE LET task == tasks[taskId]
          IN IF NotCompleted(task)
             THEN /\ last' = Call("getTaskArtifacts", taskId, Undefined,
                                  NotCompletedMessage(taskId, task.status), Undefined)
                  /\ UNCHANGED tasks
             ELSE /\ last' = Call("getTaskArtifacts", taskId, Undefined, NoMessage,
                                  [results_json |-> stringify(task.results),
                                   example_js |-> "console.log",
                                   README_md |-> "# Generated Module"])
                  /\ tasks' = [tasks EXCEPT ![taskId].results = EmptyObject]
  /\ UNCHANGED <<client, runs, hist, mtasks, mruns, disk>>

getTaskArtifacts(taskId) ==
  /\ client = "OrchestratorClient"
  /\ IF ~has(taskId)
     THEN last' = Call("getTaskArtifacts", taskId, Undefined, NotFoundMessage(taskId), Undefined)
     ELSE LET task == tasks[taskId]
          IN IF NotCompleted(task)
             THEN last' = Call("getTaskArtifacts", taskId, Undefined,
                               NotCompletedMessage(taskId, task.status), Undefined)
             ELSE last' = Call("getTaskArtifacts", taskId, Undefined, NoMessage,
                               [results_json |-> stringify(task.results),
                                example_js |-> "console.log",
                                README_md |-> "# Generated Module"])
  /\ UNCHANGED <<client, tasks, runs, hist, mtasks, mruns, disk>>

Summary(task) ==
  [id |-> task.id, type |-> task.type, status |-> task.status,
   started_at |-> task.started_at]

\* variant: only finished tasks are left out, a cancelled task is listed
IsNotFinished(task) == task.status \notin {"COMPLETED", "FAILED"}

IsActive(task) == task.status \in {"PENDING", "RUNNING"}

RECURSIVE MapSummary(_)
MapSummary(seq) ==
  IF seq = <<>> THEN <<>> ELSE <<Summary(Head(seq))>> \o MapSummary(Tail(seq))

listTasks ==
  /\ client = "OrchestratorClient"
  /\ last' = Call("listTasks", 0, Undefined, NoMessage,
                  MapSummary(SelectSeq(tasks, IsActive)))
  /\ UNCHANGED <<client, tasks, runs, hist, mtasks, mruns, disk>>

\* variant: only a COMPLETED task is refused
CannotCancelCompletedOnly(task) == task.status = "COMPLETED"

\* status !== 'RUNNING' && status !== 'PENDING'
CannotCancel(task) == task.status # "RUNNING" /\ task.status # "PENDING"

\* variant: cancelTask also ends the activation of executeWorkflow
CancelStopsRun(c) ==
  [c EXCEPT !.task.status = "CANCELLED",
            !.task.completed_at = Timestamp,
            !.run.pc = "returned",
            !.hist.cancelled = TRUE]

\* variant: cancelTask puts the step that is RUNNING back to PENDING
CancelResetsStep(c) ==
  [c EXCEPT !.task.status = "CANCELLED",
            !.task.completed_at = Timestamp,
            !.task.steps = [i \in DOMAIN @ |->
                              IF @[i].status = "RUNNING" THEN [@[i] EXCEPT !.status = "PENDING"]
                              ELSE @[i]],
            !.hist.cancelled = TRUE]

\* the assignments of cancelTask; the activation of executeWorkflow is not touched
CancelUpdate(c) ==
  [c EXCEPT !.task.status = "CANCELLED",
            !.task.completed_at = Timestamp,
            !.hist.cancelled = TRUE]

CannotCancelMessage(taskId, status) ==
  <<"Task ", ToString(taskId), " cannot be cancelled (status: ", status, ")">>

cancelTask(taskId) ==
  /\ client = "OrchestratorClient"
  /\ IF ~has(taskId)
     THEN /\ last' = Call("cancelTask", taskId, Undefined, NotFoundMessage(taskId), Undefined)
          /\ UNCHANGED <<tasks, runs, hist>>
     ELSE IF CannotCancel(tasks[taskId])
     THEN /\ last' = Call("cancelTask", taskId, Undefined,
                          CannotCancelMessage(taskId, tasks[taskId].status), Undefined)
          /\ UNCHANGED <<tasks, runs, hist>>
     ELSE LET c == CancelUpdate(Cell(taskId))
          IN /\ tasks' = [tasks EXCEPT ![taskId] = c.task]
             /\ runs'  = [runs EXCEPT ![taskId] = c.run]
             /\ hist'  = [hist EXCEPT ![taskId] = c.hist]
             /\ last'  = Call("cancelTask", taskId, Undefined, NoMessage, TRUE)
  /\ UNCHANGED <<client, mtasks, mruns, disk>>

----------------------------------------------------------------------------
(* MinimalOrchestratorClient.  tasks.json holds the array of task records; *)
(* the constructor loads it into the Map, saveTasksToDisk overwrites it    *)
(* with the Map's values.  File writes are taken to succeed.               *)

\* config/mvp.json
config ==
  [validation |-> [enable_basic_testing |-> TRUE],
   storage |-> [base_path |-> ".happiness", generations_path |-> ".happiness/generated"],
   code_generator |-> [supported_languages |-> {"javascript", "python"}]]

\* what a caller passes to generateCode
Prompts == {"a todo api", "a flask app"}
Options == {[language |-> Undefined], [language |-> "ruby"]}

\* new Task(id, prompt, options)
Task(id, prompt, options) ==
  [id |-> id, prompt |-> prompt, options |-> options, status |-> "PENDING",
   started_at |-> Timestamp, completed_at |-> Undefined, error |-> NoMessage,
   results |-> Null, outputPath |-> Undefined]

\* config.storage.generations_path, in scan-generations and in the client
generationsPath == ".happiness/generated"

\* path.join(dir, name)
Join(dir, name) == dir \o "/" \o name

\* the record scan-generations writes for a generation directory it finds
ScannedTask(id, dir) ==
  [id |-> id, prompt |-> "Unknown generated code", options |-> [language |-> "unknown"],
   status |-> "COMPLETED", started_at |-> Timestamp, completed_at |-> Timestamp,
   error |-> NoMessage,
   results |-> [validation |-> [passed |-> TRUE, issues |-> {}]],
   outputPath |-> dir]

\* the ledgers a process can find when it starts: no file; a file written by
\* scan-generations and by an earlier process that stopped during a generation
Ledgers ==
  { <<>>,
    << ScannedTask(1, Join(generationsPath, "gen-a")),
       [Task(2, "a todo api", [language |-> Undefined]) EXCEPT !.status = "GENERATING_CODE"] >> }

\* this.tasks.set(task.id, task): a record whose id is in the Map replaces the
\* one there, in its place; another is added at the end
MapSet(map, task) ==
  IF \E i \in 1..Len(map) : map[i].id = task.id
  THEN [i \in 1..Len(map) |-> IF map[i].id = task.id THEN task ELSE map[i]]
  ELSE Append(map, task)

RECURSIVE loadTasksFromDisk(_)

\* variant: a task the file shows in the middle of a generation is loaded as
\* FAILED
loadTasksFromDiskFailingInterrupted(file) ==
  [i \in 1..Len(file) |->
     IF file[i].status \in {"COMPLETED", "FAILED"} THEN file[i]
     ELSE [file[i] EXCEPT !.status = "FAILED"]]

\* loadTasksFromDisk: every record of the array is set in the Map under its id
loadTasksFromDisk(file) ==
  IF file = <<>> THEN <<>>
  ELSE MapSet(loadTasksFromDisk(SubSeq(file, 1, Len(file) - 1)), file[Len(file)])

\* saveTasksToDisk: the file becomes JSON.stringify(Array.from(this.tasks.values())),
\* the records of the Map in its order; a property that is undefined is left
\* out and reads as undefined again, which the records here write as Undefined
saveTasksToDisk(map) == [i \in 1..Len(map) |-> map[i]]

\* prompt.toLowerCase().includes(word), for the prompts of Prompts
Includes(prompt, word) ==
  \/ prompt = "a todo api" /\ word = "api"
  \/ prompt = "a flask app" /\ word = "flask"

detectLanguage(prompt) ==
  IF Includes(prompt, "python") \/ Includes(prompt, "django") \/ Includes(prompt, "flask")
  THEN "python"
  ELSE IF Includes(prompt, "java") /\ ~Includes(prompt, "javascript") THEN "java"
  ELSE "javascript"

\* the files of the generators, by name; README.md is always among them
generateJavaScriptCode(prompt) ==
  LET isNodeBackend == Includes(prompt, "api") \/ Includes(prompt, "server")
                         \/ Includes(prompt, "backend")
      isReactFrontend == Includes(prompt, "react") \/ Includes(prompt, "frontend")
                           \/ Includes(prompt, "ui")
      names == (IF isNodeBackend THEN {"server.js", "package.json"} ELSE {})
                 \cup (IF isReactFrontend THEN {"App.js", "App.css"} ELSE {})
                 \cup {"README.md"}
  IN [f \in names |-> IF f = "package.json" THEN "name: api-server, main: server.js"
                      ELSE "text"]

generatePythonCode(prompt) ==
  LET isFlask == Includes(prompt, "flask") \/ Includes(prompt, "web")
                   \/ Includes(prompt, "api")
      isDataScience == Includes(prompt, "data") \/ Includes(prompt, "analysis")
                         \/ Includes(prompt, "machine learning")
      names == (IF isFlask THEN {"app.py", "requirements.txt"} ELSE {})
                 \cup (IF isDataScience THEN {"analysis.py", "requirements.txt"} ELSE {})
                 \cup {"README.md"}
  IN [f \in names |-> "text"]

UnsupportedLanguageMessage(language) == <<"Unsupported language: ", language>>

\* what the awaited callCodeGenerator(prompt, options) settles with
callCodeGenerator(prompt, options) ==
  LET language == IF options.language # Undefined THEN options.language
                  ELSE detectLanguage(prompt)
  IN CASE language = "javascript" -> Value(generateJavaScriptCode(prompt))
       [] language = "python" -> Value(generatePythonCode(prompt))
       [] OTHER ->
            IF options.language # Undefined
               /\ options.language \notin config.code_generator.supported_languages
            THEN Threw(UnsupportedLanguageMessage(options.language))
            ELSE Value(generateJavaScriptCode(prompt))

\* JSON.parse of a generated package.json: the generator's text parses and
\* has a name and a main
ParsePackageJson(text) ==
  [valid |-> TRUE,
   name  |-> text = "name: api-server, main: server.js",
   main  |-> text = "name: api-server, main: server.js"]

validateCode(codeFiles) ==
  LET package == IF "package.json" \in DOMAIN codeFiles
                 THEN ParsePackageJson(codeFiles["package.json"])
                 ELSE [valid |-> TRUE, name |-> TRUE, main |-> TRUE]
  IN [passed |-> DOMAIN codeFiles # {} /\ package.valid,
      issues |-> {m \in {"No code files were generated", "README.md file is missing",
                         "package.json is missing a name field",
                         "package.json is missing a main field", "Invalid package.json"} :
                    \/ m = "No code files were generated" /\ DOMAIN codeFiles = {}
                    \/ m = "README.md file is missing" /\ "README.md" \notin DOMAIN codeFiles
                    \/ m = "package.json is missing a name field"
                         /\ package.valid /\ ~package.name
                    \/ m = "package.json is missing a main field"
                         /\ package.valid /\ ~package.main
                    \/ m = "Invalid package.json" /\ ~package.valid}]

mhas(taskId) == taskId \in 1..Len(mtasks)

\* the ids a caller may pass: those in the Map and one that is not
MinimalTaskIds == 1..(Len(mtasks) + 1)

\* the code of the client acts on the Map, on the file and on the activation
\* of executeCodeGeneration for one task
MinimalCell(map, file, run) == [map |-> map, file |-> file, run |-> run]

\* task.status = status; this.tasks.set(taskId, task)
SetStatus(m, t, status) ==
  [m EXCEPT !.map[t].status = status, !.run.trail = Append(@, status)]

\* this.saveTasksToDisk(), the write succeeding
Save(m) == [m EXCEPT !.file = saveTasksToDisk(m.map)]

\* variant: the status is VALIDATING before the generator is called
EnterGenerationValidatingFirst(m, t) ==
  Save(SetStatus(Save(SetStatus(Save(SetStatus(m, t, "RUNNING")), t, "VALIDATING")),
                 t, "GENERATING_CODE"))

\* executeCodeGeneration up to its await: RUNNING, saved; GENERATING_CODE,
\* saved; the call of callCodeGenerator
EnterGeneration(m, t) ==
  Save(SetStatus(Save(SetStatus(m, t, "RUNNING")), t, "GENERATING_CODE"))

\* the catch block of executeCodeGeneration: FAILED, error, completed_at, saved;
\* it rethrows
CatchGeneration(m, t, message) ==
  Save([SetStatus(m, t, "FAILED") EXCEPT !.map[t].error = message,
                                         !.map[t].completed_at = Timestamp])

\* the handler generateCode attached with .catch: the same assignments, saved
RejectGeneration(m, t, message) ==
  [Save([SetStatus(m, t, "FAILED") EXCEPT !.map[t].error = message,
                                          !.map[t].completed_at = Timestamp])
     EXCEPT !.run.pc = "rejected"]

\* variant: the failure is recorded in the task's error only
FailGenerationSilently(m, t, message) ==
  [Save([m EXCEPT !.map[t].error = message]) EXCEPT !.run.pc = "rejected"]

FailGeneration(m, t, message) ==
  RejectGeneration(CatchGeneration(m, t, message), t, message)

\* variant: the last assignments are not saved
FinishGenerationUnsaved(m, t) ==
  [SetStatus(m, t, "COMPLETED") EXCEPT !.map[t].completed_at = Timestamp,
                                       !.run.pc = "returned"]

\* task.status = 'COMPLETED'; task.completed_at; saved
FinishGeneration(m, t) ==
  [Save([SetStatus(m, t, "COMPLETED") EXCEPT !.map[t].completed_at = Timestamp])
     EXCEPT !.run.pc = "returned"]

\* the directory executeCodeGeneration writes the files of task t to:
\* gen-<timestamp>, one per generation
OutputDirName(t) == "gen-" \o ToString(t)

\* executeCodeGeneration after the await, when the generator returned:
\* validation, the artifact files, COMPLETED; writing a file can fail
CompleteGeneration(m, t, generatedCode, written) ==
  LET validated ==
        IF config.validation.enable_basic_testing
        THEN [Save(SetStatus(m, t, "VALIDATING"))
                EXCEPT !.map[t].results = [code |-> generatedCode,
                                           validation |-> validateCode(generatedCode)]]
        ELSE [m EXCEPT !.map[t].results = [code |-> generatedCode,
                                           validation |-> [passed |-> TRUE, issues |-> {}]]]
  IN IF config.storage.generations_path # Undefined
     THEN LET saving == Save(SetStatus(validated, t, "SAVING_ARTIFACTS"))
          IN IF ~written
             THEN FailGeneration(saving, t, <<"write failed">>)
             ELSE FinishGeneration(
                    [saving EXCEPT !.map[t].outputPath =
                                      Join(config.storage.generations_path,
                                           OutputDirName(t))], t)
     ELSE FinishGeneration(validated, t)

\* what the activation of a task created by generateCode starts with; trail
\* is the sequence of statuses the task has been given, returnedAt the length
\* of trail when callCodeGenerator returned (0 before, and if it threw)
NewGeneration(prompt, options) ==
  [pc |-> "await", prompt |-> prompt, options |-> options,
   trail |-> <<"PENDING">>, returnedAt |-> 0]

\* the activation there is none of: the task was read from the file
LoadedGeneration(task) ==
  [pc |-> "loaded", prompt |-> task.prompt, options |-> task.options,
   trail |-> <<task.status>>, returnedAt |-> 0]

\* generateCode with everything it runs before it returns: the new task,
\* saved, and executeCodeGeneration up to its await
generateCode(prompt, options) ==
  /\ client = "MinimalOrchestratorClient"
  /\ Cardinality({t \in 1..Len(mruns) : mruns[t].pc # "loaded"}) < MaxTasks
  /\ LET taskId == Len(mtasks) + 1
     IN \E m \in {EnterGeneration(
                    Save(MinimalCell(MapSet(mtasks, Task(taskId, prompt, options)), disk,
                                     NewGeneration(prompt, options))), taskId)} :
          /\ mtasks' = m.map
          /\ mruns'  = Append(mruns, m.run)
          /\ disk'   = m.file
          /\ last'   = Call("generateCode", taskId, prompt, NoMessage, taskId)
  /\ UNCHANGED <<client, tasks, runs, hist>>

\* the awaited callCodeGenerator of task t settles and executeCodeGeneration
\* runs to its end
resumeCodeGeneration(t) ==
  /\ client = "MinimalOrchestratorClient"
  /\ mhas(t)
  /\ mruns[t].pc = "await"
  /\ \E settled \in {callCodeGenerator(mruns[t].prompt, mruns[t].options)} :
     \E written \in BOOLEAN :
     \E m \in {IF settled.threw
               THEN FailGeneration(MinimalCell(mtasks, disk, mruns[t]), t, settled.msg)
               ELSE CompleteGeneration(
                      MinimalCell(mtasks, disk,
                                  [mruns[t] EXCEPT !.returnedAt = Len(mruns[t].trail)]),
                      t, settled.value, written)} :
          /\ mtasks' = m.map
          /\ mruns'  = [mruns EXCEPT ![t] = m.run]
          /\ disk'   = m.file
          /\ last'   = Call("executeCodeGeneration", t, Undefined, NoMessage, m.run.pc)
  /\ UNCHANGED <<client, tasks, runs, hist>>

\* fs.readdirSync(generationsPath).filter(name => name.startsWith('gen-')), in
\* the order of the names: the directories this process made (ensureDir of
\* executeCodeGeneration, once SAVING_ARTIFACTS is reached), then gen-a, a
\* generation of an earlier process
readdirSync ==
  LET made == SelectSeq([t \in 1..Len(mruns) |-> t],
                        LAMBDA t : \E k \in 1..Len(mruns[t].trail) :
                                      mruns[t].trail[k] = "SAVING_ARTIFACTS")
  IN [k \in 1..Len(made) |-> OutputDirName(made[k])] \o <<"gen-a">>

\* uuidv4() of scan-generations for the record it pushes at place k: an id
\* no client gives
ScanId(k) == 100 + k

\* the loop of scanAndRegisterGenerations over the directories: a record is
\* pushed for each path that is not among existingPaths; the README of the
\* directory is taken to name no prompt and no language
RECURSIVE RegisterGenerations(_, _, _)
RegisterGenerations(ledger, dirs, existingPaths) ==
  IF dirs = <<>> THEN ledger
  ELSE LET dir == Join(generationsPath, Head(dirs))
       IN RegisterGenerations(
            IF dir \in existingPaths THEN ledger
            ELSE Append(ledger, ScannedTask(ScanId(Len(ledger) + 1), dir)),
            Tail(dirs), existingPaths)

\* the script scan-generations, run as a process of its own: it reads the
\* file, registers the directories and writes the file, without an await
scanAndRegisterGenerations ==
  /\ client = "MinimalOrchestratorClient"
  /\ LET existingPaths == {disk[i].outputPath : i \in 1..Len(disk)}
     IN \E ledger \in {RegisterGenerations(disk, readdirSync, existingPaths)} :
          /\ disk' = ledger
          /\ last' = Call("scanAndRegisterGenerations", 0, Undefined, NoMessage,
                          Len(ledger) - Len(disk))
  /\ UNCHANGED <<client, tasks, runs, hist, mtasks, mruns>>

\* task.status !== 'COMPLETED'
MinimalNotCompleted(task) == task.status # "COMPLETED"

MinimalNotCompletedMessage(taskId, status) ==
  <<"Task ", ToString(taskId), " is not completed (status: ", status, ")">>

\* MinimalOrchestratorClient.getTaskArtifacts
minimalGetTaskArtifacts(taskId) ==
  /\ client = "MinimalOrchestratorClient"
  /\ IF ~mhas(taskId)
     THEN last' = Call("getTaskArtifacts", taskId, Undefined, NotFoundMessage(taskId), Undefined)
     ELSE LET task == mtasks[taskId]
          IN IF MinimalNotCompleted(task)
             THEN last' = Call("getTaskArtifacts", taskId, Undefined,
                               MinimalNotCompletedMessage(taskId, task.status), Undefined)
             ELSE last' = Call("getTaskArtifacts", taskId, Undefined, NoMessage,
                               IF "code" \in DOMAIN task.results THEN task.results.code
                               ELSE UndefinedObject)
  /\ UNCHANGED <<client, tasks, runs, hist, mtasks, mruns, disk>>

\* MinimalOrchestratorClient.getTaskStatus
minimalGetTaskStatus(taskId) ==
  /\ client = "MinimalOrchestratorClient"
  /\ IF ~mhas(taskId)
     THEN last' = Call("getTaskStatus", taskId, Undefined, NotFoundMessage(taskId), Undefined)
     ELSE LET task == mtasks[taskId]
          IN last' = Call("getTaskStatus", taskId, Undefined, NoMessage,
                          [id |-> task.id, status |-> task.status, prompt |-> task.prompt,
                           error |-> task.error, started_at |-> task.started_at,
                           completed_at |-> task.completed_at,
                           outputPath |-> task.outputPath])
  /\ UNCHANGED <<client, tasks, runs, hist, mtasks, mruns, disk>>

\* the prompts of Prompts and of Ledgers are shorter than 50 characters, so
\* prompt.substring(0, 50) is the prompt and no '...' is appended
MinimalSummary(task) ==
  [id |-> task.id, status |-> task.status, prompt |-> task.prompt,
   started_at |-> task.started_at, completed_at |-> task.completed_at,
   outputPath |-> task.outputPath]

\* variant: the active-only filter of OrchestratorClient.listTasks
minimalListTasksActiveOnly ==
  /\ client = "MinimalOrchestratorClient"
  /\ last' = Call("listTasks", 0, Undefined, NoMessage,
                  LET active == SelectSeq(mtasks, LAMBDA task :
                                            task.status \notin {"COMPLETED", "FAILED"})
                  IN [i \in 1..Len(active) |-> MinimalSummary(active[i])])
  /\ UNCHANGED <<client, tasks, runs, hist, mtasks, mruns, disk>>

\* MinimalOrchestratorClient.listTasks
minimalListTasks ==
  /\ client = "MinimalOrchestratorClient"
  /\ last' = Call("listTasks", 0, Undefined, NoMessage,
                  [i \in 1..Len(mtasks) |-> MinimalSummary(mtasks[i])])
  /\ UNCHANGED <<client, tasks, runs, hist, mtasks, mruns, disk>>

----------------------------------------------------------------------------
Init ==
  /\ tasks = <<>>
  /\ runs = <<>>
  /\ hist = <<>>
  /\ last = Call("constructor", 0, Undefined, NoMessage, Undefined)
  /\ \/ /\ client = "OrchestratorClient"
        /\ disk = <<>>
        /\ mtasks = <<>>
        /\ mruns = <<>>
     \/ /\ client = "MinimalOrchestratorClient"
        /\ disk \in Ledgers
        /\ mtasks = loadTasksFromDisk(disk)
        /\ mruns = [i \in 1..Len(mtasks) |-> LoadedGeneration(mtasks[i])]

Next ==
  \/ \E workflowName \in WorkflowNames, params \in Params : startWorkflow(workflowName, params)
  \/ \E t \in TaskIds : resumeWorkflow(t)
  \/ \E taskId \in TaskIds : getTaskStatus(taskId)
  \/ \E taskId \in TaskIds : getTaskArtifacts(taskId)
  \/ listTasks
  \/ \E taskId \in TaskIds : cancelTask(taskId)
  \/ \E prompt \in Prompts, options \in Options : generateCode(prompt, options)
  \/ \E t \in MinimalTaskIds : resumeCodeGeneration(t)
  \/ \E taskId \in MinimalTaskIds : minimalGetTaskStatus(taskId)
  \/ \E taskId \in MinimalTaskIds : minimalGetTaskArtifacts(taskId)
  \/ minimalListTasks

Spec == Init /\ [][Next]_vars

\* the calls and callbacks that change a task of OrchestratorClient; the other
\* calls read only
EngineNext ==
  \/ \E workflowName \in WorkflowNames, params \in Params : startWorkflow(workflowName, params)
  \/ \E t \in TaskIds : resumeWorkflow(t)
  \/ \E taskId \in TaskIds : cancelTask(taskId)

\* an awaited agent call settles: while some run is suspended in
\* await executeStep, one of the suspended runs is eventually resumed
FairSpec ==
  Init /\ [][EngineNext]_vars /\ WF_vars(\E t \in TaskIds : resumeWorkflow(t))

\* several runs at once: one more workflow is started than under Spec, and the
\* callers cancel and list the tasks there are
ConcurrentNext ==
  \/ \E params \in Params : startWorkflowWithin(MaxTasks + 1, "full_cycle", params)
  \/ \E t \in 1..Len(tasks) : resumeWorkflow(t)
  \/ \E taskId \in 1..Len(tasks) : cancelTask(taskId)
  \/ listTasks

ConcurrentSpec == Init /\ [][ConcurrentNext]_vars

\* the ids of the tasks a MinimalOrchestratorClient can hold: those of the
\* longest ledger and those it creates
LedgerIds == 1..(2 + MaxTasks)

\* a caller of MinimalOrchestratorClient that generates, polls the status and
\* fetches the artifacts
GenerationNext ==
  \/ \E prompt \in Prompts, options \in Options : generateCode(prompt, options)
  \/ \E t \in LedgerIds : resumeCodeGeneration(t)
  \/ \E taskId \in LedgerIds : minimalGetTaskStatus(taskId)
  \/ \E taskId \in LedgerIds : minimalGetTaskArtifacts(taskId)

\* a MinimalOrchestratorClient and the script scan-generations on one file
LedgerNext ==
  \/ \E prompt \in Prompts, options \in Options : generateCode(prompt, options)
  \/ \E t \in LedgerIds : resumeCodeGeneration(t)
  \/ scanAndRegisterGenerations
  \/ \E taskId \in LedgerIds : minimalGetTaskStatus(taskId)
  \/ minimalListTasks

LedgerSpec == Init /\ [][LedgerNext]_vars

\* the awaited callCodeGenerator returns or throws: a generation suspended in
\* the await is eventually resumed
GenerationFairSpec ==
  Init /\ [][GenerationNext]_vars /\ WF_vars(\E t \in LedgerIds : resumeCodeGeneration(t))

----------------------------------------------------------------------------
(* Properties *)

Ids == 1..Len(tasks)
StepIds(task) == 1..Len(task.steps)
AllDone(task) == \A i \in StepIds(task) : task.steps[i].status \in {"COMPLETED", "SKIPPED"}
AnyFailed(task) == \E i \in StepIds(task) : task.steps[i].status = "FAILED"
IsOrchestratorCall(call, op) == client = "OrchestratorClient" /\ call.op = op

\* C1: in every state and for every task of OrchestratorClient, the status is
\* COMPLETED exactly when every step record is COMPLETED or SKIPPED.
CompletedIffAllStepsDone ==
  \A t \in Ids : (tasks[t].status = "COMPLETED") <=> AllDone(tasks[t])

\* a run that was cancelled on the way, skipped a step and still ended COMPLETED
CompletedAfterCancelWithSkip ==
  \E t \in Ids :
    /\ tasks[t].status = "COMPLETED"
    /\ hist[t].cancelled
    /\ \E i \in StepIds(tasks[t]) : tasks[t].steps[i].status = "SKIPPED"
    /\ \E i \in StepIds(tasks[t]) : tasks[t].steps[i].status = "COMPLETED"

\* C2: in every state and for every task of OrchestratorClient, the status is
\* FAILED exactly when at least one step record is FAILED.
FailedIffSomeStepFailed ==
  \A t \in Ids : (tasks[t].status = "FAILED") <=> AnyFailed(tasks[t])

\* C3: once the try block of step k has raised, the task is FAILED, step k is
\* FAILED, and every later step is PENDING, was never RUNNING and was never
\* passed to executeStep, in this state and in every later one.
FailureStopsTheRun ==
  \A t \in Ids : \A k \in hist[t].raised :
    /\ tasks[t].status = "FAILED"
    /\ tasks[t].steps[k].status = "FAILED"
    /\ \A j \in StepIds(tasks[t]) :
         j > k => /\ tasks[t].steps[j].status = "PENDING"
                  /\ j \notin hist[t].invoked
                  /\ j \notin hist[t].wasRunning

\* step 3 of 7 failed after two steps completed, and a later call found it so
FailedInTheMiddle ==
  \E t \in Ids :
    /\ 3 \in hist[t].raised
    /\ tasks[t].steps[2].status = "COMPLETED"
    /\ last.op = "cancelTask" /\ last.id = t /\ last.error # NoMessage

\* C4: no activation of executeWorkflow ever rejects.
NeverRejects ==
  \A t \in Ids : runs[t].pc # "rejected"

\* C5: a step whose condition returned false is SKIPPED, was never RUNNING and
\* was never passed to executeStep, and the progress getTaskStatus returns is
\* the percentage of steps that are COMPLETED or SKIPPED.
SkippedNeverRuns ==
  /\ \A t \in Ids : \A i \in StepIds(tasks[t]) :
       /\ i \in hist[t].condFalse => tasks[t].steps[i].status = "SKIPPED"
       /\ tasks[t].steps[i].status = "SKIPPED" =>
            /\ i \in hist[t].condFalse
            /\ i \notin hist[t].invoked
            /\ i \notin hist[t].wasRunning
  /\ (IsOrchestratorCall(last, "getTaskStatus") /\ last.error = NoMessage) =>
       LET steps == tasks[last.id].steps
           done  == Cardinality({i \in 1..Len(steps) : steps[i].status = "COMPLETED"})
                    + Cardinality({i \in 1..Len(steps) : steps[i].status = "SKIPPED"})
       IN ReturnedValue(last).progress = (100 * done) \div Len(steps)

\* getTaskStatus answered for a task with a skipped step
StatusOfTaskWithSkip ==
  /\ IsOrchestratorCall(last, "getTaskStatus")
  /\ last.error = NoMessage
  /\ hist[last.id].condFalse # {}
  /\ ReturnedValue(last).progress = 100

\* C6: getTaskArtifacts of either client, called for a task in the Map whose
\* status is not COMPLETED, fails with the not-completed error whatever the
\* steps have done, and changes nothing.
ArtifactsOnlyWhenCompleted ==
  [][ last'.op = "getTaskArtifacts" =>
        /\ UNCHANGED <<tasks, runs, hist, mtasks, mruns, disk>>
        /\ (client = "OrchestratorClient" /\ has(last'.id)
              /\ tasks[last'.id].status # "COMPLETED") =>
             /\ last'.error = NotCompletedMessage(last'.id, tasks[last'.id].status)
             /\ last'.value = <<"getTaskArtifacts">>
        /\ (client = "MinimalOrchestratorClient" /\ mhas(last'.id)
              /\ mtasks[last'.id].status # "COMPLETED") =>
             /\ last'.error = MinimalNotCompletedMessage(last'.id, mtasks[last'.id].status)
             /\ last'.value = <<"getTaskArtifacts">> ]_vars

\* getTaskArtifacts refused for a FAILED task four of whose steps had completed
ArtifactsRefusedAfterFourSteps ==
  /\ IsOrchestratorCall(last, "getTaskArtifacts")
  /\ has(last.id)
  /\ last.error = NotCompletedMessage(last.id, "FAILED")
  /\ Count(tasks[last.id].steps, {"COMPLETED"}) = 4

\* C7: cancelTask for a task in the Map fails with the cannot-be-cancelled error
\* and changes nothing when the status is COMPLETED, FAILED or CANCELLED; when
\* it is PENDING or RUNNING it succeeds, sets CANCELLED and sets completed_at.
CancelByStatus ==
  [][ (IsOrchestratorCall(last', "cancelTask") /\ has(last'.id)) =>
        IF tasks[last'.id].status \in {"PENDING", "RUNNING"}
        THEN /\ last'.error = NoMessage
             /\ ReturnedValue(last') = TRUE
             /\ tasks'[last'.id].status = "CANCELLED"
             /\ tasks'[last'.id].completed_at # Undefined
        ELSE /\ last'.error = CannotCancelMessage(last'.id, tasks[last'.id].status)
             /\ UNCHANGED <<tasks, runs, hist>> ]_vars

\* a cancel that succeeded while the task ran, and a later one refused
CancelRefusedAfterCancelAccepted ==
  /\ IsOrchestratorCall(last, "cancelTask")
  /\ has(last.id)
  /\ last.error # NoMessage
  /\ hist[last.id].cancelled
  /\ tasks[last.id].status \in {"COMPLETED", "FAILED", "CANCELLED"}

\* what a cancelled run that returned from the end of its loop has done: every
\* step was either skipped by its condition or passed to executeStep, completed
\* and merged into the results
RunWentOn(t) ==
  \A i \in StepIds(tasks[t]) :
    \/ /\ i \in hist[t].condFalse
       /\ tasks[t].steps[i].status = "SKIPPED"
    \/ /\ i \in hist[t].invoked
       /\ tasks[t].steps[i].status = "COMPLETED"
       /\ \A k \in DOMAIN tasks[t].steps[i].result :
            k \in DOMAIN tasks[t].results

\* C8: a successful cancelTask changes the status and completed_at of its task
\* and nothing else, in particular not the activation of executeWorkflow; the
\* run of a cancelled task that is not stopped by a failure goes through all
\* the remaining steps.
CancelDoesNotStopTheRun ==
  [][ /\ (IsOrchestratorCall(last', "cancelTask") /\ last'.error = NoMessage) =>
           /\ runs' = runs
           /\ tasks' = [tasks EXCEPT ![last'.id].status = "CANCELLED",
                                     ![last'.id].completed_at = Timestamp]
           /\ \A t \in Ids : hist'[t].invoked = hist[t].invoked
      /\ \A t \in 1..Len(tasks') :
           (hist'[t].cancelled /\ runs'[t].pc # "await"
              /\ hist'[t].raised = {} /\ runs'[t].pc # "rejected") =>
             RunWentOn(t)' ]_vars

\* the run of a cancelled task has just called executeStep for a further step
InvokedAfterCancel ==
  /\ IsOrchestratorCall(last, "executeWorkflow")
  /\ ReturnedValue(last) = "await"
  /\ hist[last.id].cancelled
  /\ tasks[last.id].status = "CANCELLED"
  /\ Cardinality(hist[last.id].invoked) >= 3

\* C9: startWorkflow with a name that is not registered fails with the
\* not-found error, adds no task and starts no run.
UnknownWorkflowCreatesNothing ==
  [][ (last'.op = "startWorkflow" /\ last'.name \notin DOMAIN workflows) =>
        /\ last'.error = <<"Workflow ", last'.name, " not found">>
        /\ UNCHANGED <<tasks, runs, hist>> ]_vars

\* startWorkflow refused while a task was in the Map
UnknownWorkflowRefused ==
  /\ last.op = "startWorkflow"
  /\ last.error # NoMessage
  /\ Len(tasks) > 0

\* C10: the task startWorkflow stores has one PENDING step record per step
\* definition, in definition order and under the same names, and the task has
\* that many step records, under those names, in every later state.
StepRecordsMatchDefinitions ==
  \A t \in Ids :
    LET definitions == workflows[tasks[t].type].steps
        created     == hist[t].created
    IN /\ Len(created.steps) = Len(definitions)
       /\ \A i \in 1..Len(definitions) :
            /\ created.steps[i].name = definitions[i].name
            /\ created.steps[i].status = "PENDING"
       /\ Len(tasks[t].steps) = Len(definitions)
       /\ \A i \in 1..Len(definitions) : tasks[t].steps[i].name = definitions[i].name

\* a task whose run has ended, still with its seven step records
SevenStepsAtTheEnd ==
  \E t \in Ids :
    /\ runs[t].pc = "returned"
    /\ Len(tasks[t].steps) = 7
    /\ hist[t].created.status = "PENDING"

\* C11: startWorkflow with a registered name returns the id of the task it has
\* just stored while the first agent call is still awaited (no step has
\* finished), no task ever leaves the Map, and getTaskStatus of an id in the
\* Map succeeds and answers for that id.
StartReturnsBeforeAgents ==
  [][ /\ (IsOrchestratorCall(last', "startWorkflow") /\ last'.name \in DOMAIN workflows) =>
           /\ last'.error = NoMessage
           /\ ReturnedValue(last') = Len(tasks) + 1
           /\ Len(tasks') = Len(tasks) + 1
           /\ tasks'[Len(tasks')].id = ReturnedValue(last')
           /\ runs'[Len(tasks')].pc = "await"
           /\ \A i \in StepIds(tasks'[Len(tasks')]) :
                tasks'[Len(tasks')].steps[i].status \notin {"COMPLETED", "FAILED"}
      /\ Len(tasks') >= Len(tasks)
      /\ (IsOrchestratorCall(last', "getTaskStatus") /\ last'.id \in Ids) =>
           /\ last'.error = NoMessage
           /\ ReturnedValue(last').id = last'.id ]_vars

\* getTaskStatus answered for a task whose first agent call had not settled
StatusBeforeFirstAgentAnswer ==
  /\ IsOrchestratorCall(last, "getTaskStatus")
  /\ last.error = NoMessage
  /\ runs[last.id].pc = "await"
  /\ hist[last.id].invoked = {1}
  /\ ReturnedValue(last).status = "RUNNING"
  /\ ReturnedValue(last).progress = 0

\* C12: getTaskStatus, getTaskArtifacts and cancelTask, called with an id that
\* is not in the Map, fail with the task-not-found error and change no task,
\* no run and nothing on disk.
UnknownIdChangesNothing ==
  [][ (/\ last'.op \in {"getTaskStatus", "getTaskArtifacts", "cancelTask"}
       /\ \/ client = "OrchestratorClient" /\ last'.id \notin Ids
          \/ client = "MinimalOrchestratorClient" /\ last'.id \notin 1..Len(mtasks)) =>
        /\ last'.error = <<"Task ", ToString(last'.id), " not found">>
        /\ last'.value = <<last'.op>>
        /\ UNCHANGED <<tasks, runs, hist, mtasks, mruns, disk>> ]_vars

\* cancelTask of an unknown id refused while a task was running
UnknownIdRefusedWhileRunning ==
  /\ IsOrchestratorCall(last, "cancelTask")
  /\ last.id \notin Ids
  /\ last.error # NoMessage
  /\ \E t \in Ids : tasks[t].status = "RUNNING" /\ runs[t].pc = "await"

\* C13: in every state and for every task, at most one step is RUNNING, every
\* step before it is COMPLETED or SKIPPED and every step after it is PENDING;
\* and every step before a step that was passed to executeStep is COMPLETED
\* or SKIPPED.
StepsRunOneAtATime ==
  \A t \in Ids :
    LET steps   == tasks[t].steps
        running == {i \in StepIds(tasks[t]) : steps[i].status = "RUNNING"}
    IN /\ Cardinality(running) <= 1
       /\ \A i \in running :
            /\ \A j \in 1..(i - 1) : steps[j].status \in {"COMPLETED", "SKIPPED"}
            /\ \A j \in (i + 1)..Len(steps) : steps[j].status = "PENDING"
            /\ runs[t].pc = "await" /\ runs[t].i = i
       /\ \A i \in hist[t].invoked :
            \A j \in 1..(i - 1) : steps[j].status \in {"COMPLETED", "SKIPPED"}

\* the fifth step is RUNNING, four are done and two are still PENDING
FifthStepRunning ==
  \E t \in Ids :
    /\ tasks[t].steps[5].status = "RUNNING"
    /\ Count(tasks[t].steps, {"COMPLETED"}) = 4
    /\ Count(tasks[t].steps, {"PENDING"}) = 2

NoHalfMergedTask ==
  /\ \A t \in Ids : \A i \in StepIds(tasks[t]) :
       tasks[t].steps[i].status = "COMPLETED" =>
         \A k \in DOMAIN tasks[t].steps[i].result :
           /\ k \in DOMAIN tasks[t].results
           /\ tasks[t].results[k] = tasks[t].steps[i].result[k]
  /\ \A t \in Ids :
       tasks[t].status = "COMPLETED" =>
         /\ DOMAIN tasks[t].results # {}
         /\ \A i \in StepIds(tasks[t]) : tasks[t].steps[i].status \notin {"PENDING", "RUNNING"}
  /\ (IsOrchestratorCall(last, "getTaskArtifacts") /\ last.error = NoMessage) =>
       \A i \in StepIds(tasks[last.id]) :
         tasks[last.id].steps[i].status = "COMPLETED" =>
           \A k \in DOMAIN tasks[last.id].steps[i].result :
             tasks[last.id].steps[i].result[k] # Undefined =>
               /\ k \in DOMAIN ReturnedValue(last).results_json
               /\ ReturnedValue(last).results_json[k] = tasks[last.id].steps[i].result[k]

\* listTasks ran between two steps of a run that had merged three results
ListedBetweenSteps ==
  /\ IsOrchestratorCall(last, "listTasks")
  /\ \E t \in Ids :
       /\ runs[t].pc = "await"
       /\ Count(tasks[t].steps, {"COMPLETED"}) = 3
       /\ Cardinality(DOMAIN tasks[t].results) = 3
       /\ Len(ReturnedValue(last)) = 1

\* the run of task t is over: executeWorkflow has returned or rejected
RunEnded(t) == has(t) /\ runs[t].pc \in {"returned", "rejected"}

\* C16: when every awaited agent call settles, every run started by
\* startWorkflow ends with its task COMPLETED, FAILED or CANCELLED, and in every
\* state a run that has returned has left its task in one of these statuses.
RunsEndInTerminalStatus ==
  /\ \A t \in TaskIds :
       has(t) ~> (RunEnded(t) /\ tasks[t].status \in {"COMPLETED", "FAILED", "CANCELLED"})
  /\ [](\A t \in Ids :
          runs[t].pc = "returned" => tasks[t].status \in {"COMPLETED", "FAILED", "CANCELLED"})

\* a run that was cancelled on the way has returned after a failed step
ReturnedAfterCancelAndFailure ==
  /\ IsOrchestratorCall(last, "executeWorkflow")
  /\ ReturnedValue(last) = "returned"
  /\ hist[last.id].cancelled
  /\ tasks[last.id].status = "FAILED"
  /\ Count(tasks[last.id].steps, {"COMPLETED"}) >= 2

\* C17 as stated: after every step the accumulated results of the run and
\* the task's results hold the same top-level keys and values.
AccumulatedEqualsResults ==
  \A t \in Ids :
    /\ DOMAIN runs[t].stepResults = DOMAIN tasks[t].results
    /\ \A k \in DOMAIN tasks[t].results : runs[t].stepResults[k] = tasks[t].results[k]

\* C17 as amended: the mapped output of a COMPLETED step is stored in the
\* accumulated results under the step's name and its keys are merged into the
\* task's results; the accumulated results hold the names of the COMPLETED
\* steps, the task's results hold the keys of their mapped outputs, and the
\* values under stepResults[name][key] and results[key] are the same.
AccumulatedUnderStepNames ==
  \A t \in Ids :
    LET task == tasks[t]
        done == {i \in StepIds(task) : task.steps[i].status = "COMPLETED"}
    IN /\ DOMAIN runs[t].stepResults = {task.steps[i].name : i \in done}
       /\ DOMAIN task.results = UNION {DOMAIN task.steps[i].result : i \in done}
       /\ \A i \in done :
            /\ runs[t].stepResults[task.steps[i].name] = task.steps[i].result
            /\ \A k \in DOMAIN task.steps[i].result :
                 runs[t].stepResults[task.steps[i].name][k] = task.results[k]

\* six steps have completed: six names on one side, six output keys on the other
SixNamesSixKeys ==
  \E t \in Ids :
    /\ "analyze_errors" \in DOMAIN runs[t].stepResults
    /\ "error_analysis" \in DOMAIN tasks[t].results
    /\ Cardinality(DOMAIN runs[t].stepResults) = 6
    /\ Cardinality(DOMAIN tasks[t].results) = 6
    /\ DOMAIN runs[t].stepResults \cap DOMAIN tasks[t].results = {}

\* C18: a run that has ended, in which no try block raised (every agent call
\* returned and was mapped) and that was never cancelled, has left its task
\* COMPLETED with every key of every COMPLETED step's mapped output in
\* task.results.
SuccessfulRunCompletes ==
  \A t \in Ids :
    (RunEnded(t) /\ hist[t].raised = {} /\ ~hist[t].cancelled) =>
      /\ tasks[t].status = "COMPLETED"
      /\ \A i \in StepIds(tasks[t]) :
           tasks[t].steps[i].status = "COMPLETED" =>
             DOMAIN tasks[t].steps[i].result \subseteq DOMAIN tasks[t].results

\* C19: no step of the program removes a key from a task's results, and when
\* the try block of step k raises, the results and the result fields of the
\* step records before k are exactly what they were.
ResultsAppendOnly ==
  [][ \A t \in Ids :
        /\ DOMAIN tasks[t].results \subseteq DOMAIN tasks'[t].results
        /\ \A k \in hist'[t].raised \ hist[t].raised :
             /\ tasks'[t].results = tasks[t].results
             /\ \A j \in 1..(k - 1) : tasks'[t].steps[j].result = tasks[t].steps[j].result ]_vars

\* the fourth step has failed and the results of the first three are still there
ThreeResultsAfterFailure ==
  \E t \in Ids :
    /\ hist[t].raised = {4}
    /\ DOMAIN tasks[t].results = {"scope_definition", "task_plan", "generated_code"}
    /\ tasks[t].steps[3].result = [generated_code |-> "generated/sample_module"]
    /\ tasks[t].status = "FAILED"

\* C20: the progress getTaskStatus returns is the integer p in 0..100 with
\* p <= 100 * c / n < p + 1, for n the number of steps and c the number of
\* steps that are COMPLETED or SKIPPED, and it is 100 exactly when c = n.
ProgressIsFloorOfShare ==
  (IsOrchestratorCall(last, "getTaskStatus") /\ last.error = NoMessage) =>
    LET steps == tasks[last.id].steps
        n == Len(steps)
        c == Cardinality({i \in 1..n : steps[i].status \in {"COMPLETED", "SKIPPED"}})
        p == ReturnedValue(last).progress
    IN /\ p \in 0..100
       /\ p * n <= 100 * c
       /\ 100 * c < (p + 1) * n
       /\ (p = 100) <=> AllDone(tasks[last.id])

\* getTaskStatus answered 85 while the seventh step was running
ProgressEightyFive ==
  /\ IsOrchestratorCall(last, "getTaskStatus")
  /\ last.error = NoMessage
  /\ ReturnedValue(last).progress = 85
  /\ tasks[last.id].steps[7].status = "RUNNING"

\* C21: what listTasks returns holds exactly the tasks that are PENDING or
\* RUNNING when it is called, each once, with their id, type, status and
\* started_at, in the order in which startWorkflow created them.
ListsActiveTasksInOrder ==
  IsOrchestratorCall(last, "listTasks") =>
    LET listed == ReturnedValue(last)
        active == {t \in Ids : tasks[t].status \in {"PENDING", "RUNNING"}}
    IN /\ Len(listed) = Cardinality(active)
       /\ \A i \in 1..Len(listed) :
            /\ listed[i].id \in active
            /\ listed[i].status = tasks[listed[i].id].status
            /\ listed[i].type = tasks[listed[i].id].type
            /\ listed[i].started_at = tasks[listed[i].id].started_at
       /\ \A i, j \in 1..Len(listed) : i < j => listed[i].id < listed[j].id

\* listTasks returned two running tasks, the older one first
ListedTwoInOrder ==
  /\ IsOrchestratorCall(last, "listTasks")
  /\ Len(ReturnedValue(last)) = 2
  /\ ReturnedValue(last)[1].id = 1
  /\ ReturnedValue(last)[2].id = 2
  /\ Cardinality(hist[1].invoked) = 4
  /\ Cardinality(hist[2].invoked) = 2

\* C22: getTaskStatus and getTaskArtifacts of either client change no task, no
\* run and nothing on disk, and a call that follows the same call for the same
\* id, with nothing in between, ends the same way: the same value or the same
\* error.
ReadersAreIdempotent ==
  [][ last'.op \in {"getTaskStatus", "getTaskArtifacts"} =>
        /\ UNCHANGED <<tasks, runs, hist, mtasks, mruns, disk>>
        /\ (last.op = last'.op /\ last.id = last'.id) =>
             /\ last'.error = last.error
             /\ last'.value = last.value ]_vars

\* getTaskArtifacts has handed out the results of a task whose run skipped a step
ArtifactsOfCompletedTask ==
  /\ IsOrchestratorCall(last, "getTaskArtifacts")
  /\ last.error = NoMessage
  /\ DOMAIN ReturnedValue(last).results_json # {}
  /\ hist[last.id].condFalse # {}

\* C23: from one state to the next a step's status stays the same or moves
\* forward: PENDING to RUNNING or SKIPPED (or to FAILED, when the inputs
\* function throws in the callback that set it RUNNING), RUNNING to COMPLETED
\* or FAILED; COMPLETED, FAILED and SKIPPED are final.
StepStatusMovesForward ==
  [][ \A t \in Ids : \A i \in StepIds(tasks[t]) :
        LET before == tasks[t].steps[i].status
            after  == tasks'[t].steps[i].status
        IN \/ after = before
           \/ before = "PENDING" /\ after \in {"RUNNING", "SKIPPED", "FAILED"}
           \/ before = "RUNNING" /\ after \in {"COMPLETED", "FAILED"} ]_vars

\* a cancel while the fourth step was RUNNING, with the steps as they were
CancelledWhileStepRunning ==
  /\ IsOrchestratorCall(last, "cancelTask")
  /\ last.error = NoMessage
  /\ tasks[last.id].steps[4].status = "RUNNING"
  /\ tasks[last.id].steps[3].status = "COMPLETED"
  /\ tasks[last.id].steps[5].status = "PENDING"

\* C24: in every state a task's error is set only if the task is FAILED, a
\* step's error is set only if the step is FAILED, and a step's result is
\* not null only if the step is COMPLETED.
ErrorAndResultMatchStatus ==
  \A t \in Ids :
    /\ tasks[t].error # NoMessage => tasks[t].status = "FAILED"
    /\ \A i \in StepIds(tasks[t]) :
         /\ tasks[t].steps[i].error # NoMessage => tasks[t].steps[i].status = "FAILED"
         /\ tasks[t].steps[i].result # Null => tasks[t].steps[i].status = "COMPLETED"

\* a task that failed at its fifth step after a cancel: four results, one error
FailedAfterCancelWithFourResults ==
  \E t \in Ids :
    /\ hist[t].cancelled
    /\ tasks[t].status = "FAILED"
    /\ tasks[t].error # NoMessage
    /\ tasks[t].steps[5].error # NoMessage
    /\ \A i \in 1..4 : tasks[t].steps[i].result # Null
    /\ \A i \in 5..7 : tasks[t].steps[i].result = Null

\* C25: every step of the program changes the record and the run of at most
\* one task, the one the call or callback is for; every other task and run is
\* left exactly as it was.
TasksAreIndependent ==
  [][ \A t \in Ids : t # last'.id => (tasks'[t] = tasks[t] /\ runs'[t] = runs[t]) ]_vars

\* two runs side by side: the first has failed at its third step while the
\* second, cancelled, waits for its fifth
FailedBesideCancelled ==
  /\ IsOrchestratorCall(last, "executeWorkflow")
  /\ Len(tasks) = 2
  /\ last.id = 1
  /\ hist[1].raised = {3}
  /\ tasks[2].status = "CANCELLED"
  /\ runs[2].pc = "await" /\ runs[2].i = 5
  /\ Cardinality(DOMAIN tasks[2].results) = 4

\* C26: in every state a PENDING or RUNNING task has no completed_at and a
\* COMPLETED, FAILED or CANCELLED task has one.
CompletedAtIffTerminal ==
  \A t \in Ids :
    /\ tasks[t].status \in {"PENDING", "RUNNING"} => tasks[t].completed_at = Undefined
    /\ tasks[t].status \in {"COMPLETED", "FAILED", "CANCELLED"} =>
         tasks[t].completed_at # Undefined

\* C27: what MinimalOrchestratorClient.listTasks returns has one summary per
\* task of the Map, whatever the status, in the Map's order, with the task's
\* id, status, prompt, timestamps and outputPath.
MinimalListsEveryTask ==
  (client = "MinimalOrchestratorClient" /\ last.op = "listTasks") =>
    LET listed == ReturnedValue(last)
    IN /\ Len(listed) = Len(mtasks)
       /\ \A i \in 1..Len(mtasks) :
            /\ listed[i].id = mtasks[i].id
            /\ listed[i].status = mtasks[i].status
            /\ listed[i].prompt = mtasks[i].prompt
            /\ listed[i].started_at = mtasks[i].started_at
            /\ listed[i].completed_at = mtasks[i].completed_at
            /\ listed[i].outputPath = mtasks[i].outputPath

\* listed: a task registered by a scan, one an earlier process left in
\* GENERATING_CODE and one of this process that failed
ListedLoadedAndFailed ==
  /\ client = "MinimalOrchestratorClient"
  /\ last.op = "listTasks"
  /\ Len(ReturnedValue(last)) = 3
  /\ ReturnedValue(last)[1].status = "COMPLETED"
  /\ ReturnedValue(last)[2].status = "GENERATING_CODE"
  /\ ReturnedValue(last)[3].status = "FAILED"

\* C28: when the awaited call of step i settles, the step is COMPLETED, or
\* the error of the call or of the output mapping is kept in the step record,
\* the step and the task are FAILED, the task's error names the step and
\* executeWorkflow returns (it does not reject on that error).
StepErrorsAreCaptured ==
  [][ \A t \in Ids :
        (runs[t].pc = "await" /\ runs'[t] # runs[t]) =>
          LET i    == runs[t].i
              step == tasks'[t].steps[i]
          IN \/ step.status = "COMPLETED" /\ step.error = NoMessage
             \/ /\ step.status = "FAILED"
                /\ step.error \in {AgentErrorMessage, TypeErrorMessage}
                /\ tasks'[t].status = "FAILED"
                /\ tasks'[t].error = <<"Failed to execute step ", step.name, ": ">> \o step.error
                /\ runs'[t].pc = "returned"
                /\ \A j \in (i + 1)..Len(tasks'[t].steps) :
                     tasks'[t].steps[j].status = "PENDING" ]_vars

\* the code generator answered null: the output mapping threw and the third
\* step is FAILED with that error, after two COMPLETED steps
MappingErrorCaptured ==
  \E t \in Ids :
    /\ tasks[t].steps[3].status = "FAILED"
    /\ tasks[t].steps[3].error = TypeErrorMessage
    /\ tasks[t].error = <<"Failed to execute step ", "generate_code", ": ", "TypeError">>
    /\ tasks[t].steps[1].status = "COMPLETED"
    /\ tasks[t].steps[2].status = "COMPLETED"
    /\ runs[t].pc = "returned"

StepIndex(task, name) == CHOOSE i \in StepIds(task) : task.steps[i].name = name

\* C30: in every state in which analyze_errors is SKIPPED, the tests had no
\* failure and the linter no issue, refine_code is SKIPPED too, nothing has
\* raised and the task is COMPLETED; and refine_code was passed to the agent
\* only if analyze_errors is COMPLETED with an error_analysis.
SkipCascades ==
  \A t \in Ids :
    LET task    == tasks[t]
        analyze == StepIndex(task, "analyze_errors")
        refine  == StepIndex(task, "refine_code")
    IN /\ task.steps[analyze].status = "SKIPPED" =>
            /\ failures(task.results["test_results"]) = 0
            /\ issuesLength(task.results["lint_results"]) = 0
            /\ task.steps[refine].status = "SKIPPED"
            /\ task.status = "COMPLETED"
            /\ task.error = NoMessage
            /\ hist[t].raised = {}
            /\ runs[t].pc = "returned"
       /\ (refine \in hist[t].invoked \/ task.steps[refine].status \notin {"PENDING", "SKIPPED"}) =>
            /\ task.steps[analyze].status = "COMPLETED"
            /\ Get(task.steps[analyze].result, "error_analysis") # Undefined

\* a cancelled run whose analyze_errors and refine_code were skipped is COMPLETED
SkippedBothAfterCancel ==
  \E t \in Ids :
    /\ tasks[t].steps[6].status = "SKIPPED"
    /\ tasks[t].steps[7].status = "SKIPPED"
    /\ tasks[t].status = "COMPLETED"
    /\ hist[t].cancelled
\* C31: in every state a RUNNING task has exactly one RUNNING step record,
\* and the message getTaskStatus returns for a RUNNING task is
\* 'Executing step: ' followed by that step's name, never 'Task is running'.
RunningTaskHasOneRunningStep ==
  /\ \A t \in Ids :
       tasks[t].status = "RUNNING" =>
         Cardinality({i \in StepIds(tasks[t]) : tasks[t].steps[i].status = "RUNNING"}) = 1
  /\ (IsOrchestratorCall(last, "getTaskStatus") /\ last.error = NoMessage
        /\ ReturnedValue(last).status = "RUNNING") =>
       /\ ReturnedValue(last).message # <<"Task is running">>
       /\ \E i \in StepIds(tasks[last.id]) :
            /\ tasks[last.id].steps[i].status = "RUNNING"
            /\ ReturnedValue(last).message = <<"Executing step: ", tasks[last.id].steps[i].name>>

\* getTaskStatus answered 'Executing step: lint_code' for a RUNNING task
\* whose first four steps are COMPLETED
StatusWhileLinting ==
  /\ IsOrchestratorCall(last, "getTaskStatus")
  /\ last.error = NoMessage
  /\ ReturnedValue(last).status = "RUNNING"
  /\ ReturnedValue(last).message = <<"Executing step: ", "lint_code">>
  /\ ReturnedValue(last).progress = 57

\* C34: once a task's status is COMPLETED, FAILED or CANCELLED, no step of
\* its run and no operation changes its status or its completed_at.
TerminalStatusIsFinal ==
  [][\A t \in Ids :
       tasks[t].status \in {"COMPLETED", "FAILED", "CANCELLED"} =>
         /\ tasks'[t].status = tasks[t].status
         /\ tasks'[t].completed_at = tasks[t].completed_at]_vars

\* C35: no task of the Map is PENDING in any state after startWorkflow has
\* returned: the task startWorkflow created is RUNNING when it returns, and
\* no getTaskStatus and no listTasks reports PENDING; cancelTask never finds
\* a PENDING task.
PendingIsNeverObserved ==
  /\ \A t \in Ids : tasks[t].status # "PENDING" /\ hist[t].created.status = "PENDING"
  /\ (IsOrchestratorCall(last, "startWorkflow") /\ last.error = NoMessage) =>
       tasks[ReturnedValue(last)].status = "RUNNING"
  /\ (IsOrchestratorCall(last, "getTaskStatus") /\ last.error = NoMessage) =>
       /\ ReturnedValue(last).status # "PENDING"
       /\ ReturnedValue(last).message # <<"Task is queued and waiting to start">>
  /\ IsOrchestratorCall(last, "listTasks") =>
       \A k \in 1..Len(ReturnedValue(last)) : ReturnedValue(last)[k].status = "RUNNING"

\* listTasks, called before any agent has answered, lists the task as RUNNING
ListedRunningBeforeFirstAnswer ==
  /\ IsOrchestratorCall(last, "listTasks")
  /\ Len(ReturnedValue(last)) = 1
  /\ ReturnedValue(last)[1].status = "RUNNING"
  /\ runs[1].pc = "await" /\ runs[1].i = 1
  /\ hist[1].created.status = "PENDING"
IsMinimalCall(call, op) == client = "MinimalOrchestratorClient" /\ call.op = op
MinimalIds == 1..Len(mtasks)
Created(t) == t \in MinimalIds /\ mruns[t].pc # "loaded"

\* C32: a task created by generateCode, its generator call returning or
\* throwing, eventually has status COMPLETED or FAILED with its activation
\* ended, so a caller polling getTaskStatus until one of the two stops.
GenerationsEnd ==
  \A t \in LedgerIds :
    (client = "MinimalOrchestratorClient" /\ Created(t))
      ~> (/\ Created(t)
          /\ mruns[t].pc \in {"returned", "rejected"}
          /\ mtasks[t].status \in {"COMPLETED", "FAILED"})

\* the poll of a created task answered FAILED after the generator threw
PolledFailedGeneration ==
  /\ IsMinimalCall(last, "getTaskStatus")
  /\ last.error = NoMessage
  /\ Created(last.id)
  /\ ReturnedValue(last).status = "FAILED"
  /\ ReturnedValue(last).error = UnsupportedLanguageMessage("ruby")

\* the place of a status in the order of executeCodeGeneration
StatusRank(status) ==
  CASE status = "PENDING" -> 0
    [] status = "RUNNING" -> 1
    [] status = "GENERATING_CODE" -> 2
    [] status = "VALIDATING" -> 3
    [] status = "SAVING_ARTIFACTS" -> 4
    [] status \in {"COMPLETED", "FAILED"} -> 5

FileEqualsMap ==
  client = "MinimalOrchestratorClient" => disk = saveTasksToDisk(mtasks)

\* a generation COMPLETED beside two loaded tasks: its results, outputPath and
\* completed_at are in the file
CompletedGenerationOnDisk ==
  /\ client = "MinimalOrchestratorClient"
  /\ Len(disk) = 3
  /\ disk[3].status = "COMPLETED"
  /\ disk[3].outputPath = Join(generationsPath, OutputDirName(3))
  /\ disk[3].completed_at = Timestamp
  /\ "code" \in DOMAIN disk[3].results
  /\ mruns[3].pc = "returned"
\* C37: a record of the file stays in the file: whatever the client and the
\* script scan-generations do, in any order, every id the file holds before
\* a step is among the ids it holds after the step.
RecordsAreNeverLost ==
  [][\A i \in 1..Len(disk) : \E j \in 1..Len(disk') : disk'[j].id = disk[i].id]_vars
\* C38: getTaskArtifacts of MinimalOrchestratorClient, called for a COMPLETED
\* task of the Map, returns a defined map of files, whether the task was
\* generated by this process, loaded from the file or registered by
\* scan-generations.
ArtifactsOfCompletedAreDefined ==
  (IsMinimalCall(last, "getTaskArtifacts") /\ last.error = NoMessage) =>
    /\ mtasks[last.id].status = "COMPLETED"
    /\ ReturnedValue(last) # UndefinedObject

\* C39: the Map a MinimalOrchestratorClient is constructed with holds the
\* records of the file, in the file's order, and a task that was loaded stays
\* as it was read, whatever its status: this process never activates
\* executeCodeGeneration for it.
LoadedTasksStayAsLoaded ==
  client = "MinimalOrchestratorClient" =>
    LET loaded == {t \in MinimalIds : ~Created(t)}
    IN /\ last.op = "constructor" => mtasks = disk /\ loaded = MinimalIds
       /\ \E ledger \in Ledgers :
            /\ loaded = 1..Len(ledger)
            /\ \A t \in loaded : /\ mtasks[t] = ledger[t]
                                 /\ mruns[t].trail = <<ledger[t].status>>
                                 /\ mruns[t].pc = "loaded"

\* a task loaded as GENERATING_CODE is still so after a generation of this
\* process has COMPLETED
LoadedTaskStillGenerating ==
  /\ client = "MinimalOrchestratorClient"
  /\ Len(mtasks) = 3
  /\ ~Created(2)
  /\ mtasks[2].status = "GENERATING_CODE"
  /\ Created(3)
  /\ mtasks[3].status = "COMPLETED"

====
